---- MODULE Spec2Model ----
(***************************************************************************)
(* The fuzzy reconciliation engine of Gaeltec2.0.py: preprocess_string,    *)
(* find_best_match and merge_with_pid_fuzzy, as a state machine over two   *)
(* in-memory tables.                                                       *)
(*                                                                         *)
(* Representation.  A text (a description) is a sequence of one-character  *)
(* strings.  A table (DataFrame) is a record                               *)
(*   [cols : set of column names, index : sequence of row labels,          *)
(*    rows : sequence of rows, each a function from cols to cell values].  *)
(* A missing cell (NaN/None) is NaS in a string column, NaT in a text      *)
(* column and NaNum in a numeric column.                                   *)
(***************************************************************************)
EXTENDS Integers, Sequences, FiniteSets, TLC

\* ------------------------------------------------------------ bounds
MaxAgg == 3
MaxPid == 2
MaxRows == 4
MaxWide == 2
MaxCand == 2
MaxLen == 2
MaxText == 5
MaxPresses == 3

\* ------------------------------------------------------------ cell values
NaS == "NaN"
NaT == <<"NaN">>
NaNum == -1

NoMatch == <<"No Match">>
NotAvailable == "Not Available"
Threshold == 75

TextCols == {"segmentdesc", "project_description", "matched_project_description"}
NumCols == {"match_score"}

\* the missing value of a column, by the column's type
NaOf(col) ==
  IF col \in TextCols THEN NaT ELSE IF col \in NumCols THEN NaNum ELSE NaS

\* pd.isna on a text
isna(text) == text = NaT

\* ------------------------------------------------------------ sequences
RECURSIVE SeqMax(_)
SeqMax(s) ==
  IF s = <<>> THEN 0
  ELSE LET m == SeqMax(Tail(s)) IN IF Head(s) > m THEN Head(s) ELSE m

RECURSIVE Flatten(_)
Flatten(ss) == IF ss = <<>> THEN <<>> ELSE Head(ss) \o Flatten(Tail(ss))

\* ------------------------------------------------------------ preprocess_string
IsSpace(c) == c \in {" ", "\t"}
IsWord(c) == c \in {"a", "b", "c", "A", "B", "_", "1"}
Lower(c) == IF c = "A" THEN "a" ELSE IF c = "B" THEN "b" ELSE c

lower(s) == [i \in 1..Len(s) |-> Lower(s[i])]

RECURSIVE lstrip(_)
lstrip(s) == IF s # <<>> /\ IsSpace(Head(s)) THEN lstrip(Tail(s)) ELSE s

RECURSIVE rstrip(_)
rstrip(s) ==
  IF s # <<>> /\ IsSpace(s[Len(s)]) THEN rstrip(SubSeq(s, 1, Len(s) - 1)) ELSE s

strip(s) == rstrip(lstrip(s))

\* re.sub(r'\s+', ' ', text): every maximal run of whitespace becomes one space
RECURSIVE CollapseSpaces(_)
CollapseSpaces(s) ==
  IF s = <<>> THEN <<>>
  ELSE IF IsSpace(Head(s)) THEN <<" ">> \o CollapseSpaces(lstrip(s))
  ELSE <<Head(s)>> \o CollapseSpaces(Tail(s))

\* re.sub(r'[^\w\s]', '', text): drop what is neither a word character nor whitespace
RemoveSpecial(s) == SelectSeq(s, LAMBDA c : IsWord(c) \/ IsSpace(c))

preprocess_string(text) ==
  IF isna(text) THEN <<>>
  ELSE RemoveSpecial(CollapseSpaces(strip(lower(text))))

\* ------------------------------------------------------------ fuzz.partial_ratio
\* length of a longest common subsequence
RECURSIVE LCS(_, _)
LCS(s, t) ==
  IF s = <<>> \/ t = <<>> THEN 0
  ELSE IF Head(s) = Head(t) THEN 1 + LCS(Tail(s), Tail(t))
  ELSE LET a == LCS(Tail(s), t)
           b == LCS(s, Tail(t))
       IN IF a > b THEN a ELSE b

\* rapidfuzz's ratio: the normalised Indel similarity, 100 * 2*LCS / (|s|+|t|).
\* rapidfuzz returns a float; the model keeps its integer part, which decides
\* every comparison with an integer threshold the same way.
ratio(s, t) ==
  IF Len(s) + Len(t) = 0 THEN 100 ELSE (200 * LCS(s, t)) \div (Len(s) + Len(t))

\* the best ratio of the shorter string against the windows of the longer one:
\* its proper prefixes shorter than the window, every full window, every suffix
PartialImpl(sh, lg) ==
  LET n1 == Len(sh)
      n2 == Len(lg)
      pre == [i \in 1..(IF n1 > 1 THEN n1 - 1 ELSE 0) |-> ratio(sh, SubSeq(lg, 1, i))]
      mid == [i \in 1..(n2 - n1) |-> ratio(sh, SubSeq(lg, i, i + n1 - 1))]
      suf == [i \in 1..(IF n1 < n2 THEN n1 ELSE n2) |->
                 ratio(sh, SubSeq(lg, n2 - (IF n1 < n2 THEN n1 ELSE n2) + i, n2))]
  IN SeqMax(pre \o mid \o suf)

partial_ratio(s1, s2) ==
  IF s1 = <<>> /\ s2 = <<>> THEN 100
  ELSE IF s1 = <<>> \/ s2 = <<>> THEN 0
  ELSE IF Len(s1) < Len(s2) THEN PartialImpl(s1, s2)
  ELSE IF Len(s2) < Len(s1) THEN PartialImpl(s2, s1)
  ELSE LET a == PartialImpl(s1, s2)
           b == PartialImpl(s2, s1)
       IN IF a = 100 \/ a >= b THEN a ELSE b

\* ------------------------------------------------------------ find_best_match
\* (mutant) the comparison with the best score so far is lost: the last
\* candidate at or above the threshold wins
RECURSIVE BestLoopLast(_, _, _, _)
BestLoopLast(target, candidates, threshold, best) ==
  IF candidates = <<>> THEN best
  ELSE LET candidate == Head(candidates)
           score == partial_ratio(preprocess_string(target), preprocess_string(candidate))
       IN IF isna(candidate)
          THEN BestLoopLast(target, Tail(candidates), threshold, best)
          ELSE IF score >= threshold
          THEN BestLoopLast(target, Tail(candidates), threshold, <<candidate, score>>)
          ELSE BestLoopLast(target, Tail(candidates), threshold, best)

\* (mutant) a candidate that only equals the best score so far replaces it:
\* the last of several tied candidates wins
RECURSIVE BestLoopTiesLast(_, _, _, _)
BestLoopTiesLast(target, candidates, threshold, best) ==
  IF candidates = <<>> THEN best
  ELSE LET candidate == Head(candidates)
           score == partial_ratio(preprocess_string(target), preprocess_string(candidate))
       IN IF isna(candidate)
          THEN BestLoopTiesLast(target, Tail(candidates), threshold, best)
          ELSE IF score >= best[2] /\ score >= threshold
          THEN BestLoopTiesLast(target, Tail(candidates), threshold, <<candidate, score>>)
          ELSE BestLoopTiesLast(target, Tail(candidates), threshold, best)

\* the loop of find_best_match, one candidate per step; best is <<match, score>>
RECURSIVE BestLoop(_, _, _, _)
BestLoop(target, candidates, threshold, best) ==
  IF candidates = <<>> THEN best
  ELSE LET candidate == Head(candidates)
           score == partial_ratio(preprocess_string(target), preprocess_string(candidate))
       IN IF isna(candidate)
          THEN BestLoop(target, Tail(candidates), threshold, best)
          ELSE IF score > best[2] /\ score >= threshold
          THEN BestLoop(target, Tail(candidates), threshold, <<candidate, score>>)
          ELSE BestLoop(target, Tail(candidates), threshold, best)

\* (mutant) a null target is not turned away: it is scored like any text
find_best_match_any_target(target, candidates, threshold) ==
  IF Len(candidates) = 0 THEN <<NaT, 0>>
  ELSE BestLoop(target, candidates, threshold, <<NaT, 0>>)

\* returns <<best_match, best_score>>; best_match NaT stands for None
find_best_match(target, candidates, threshold) ==
  IF isna(target) THEN <<NaT, 0>>
  ELSE IF Len(candidates) = 0 THEN <<NaT, 0>>
  ELSE BestLoop(target, candidates, threshold, <<NaT, 0>>)

\* ------------------------------------------------------------ tables
None == [isNone |-> TRUE, cols |-> {}, index |-> <<>>, rows |-> <<>>]
DataFrame(cols, index, rows) ==
  [isNone |-> FALSE, cols |-> cols, index |-> index, rows |-> rows]

\* df.empty
empty(df) == Len(df.rows) = 0

\* df[mask]: the rows whose entry of the boolean mask is True, with their
\* index labels
Filter(df, mask) ==
  LET sel == SelectSeq([i \in 1..Len(df.rows) |-> i], LAMBDA i : mask[i])
  IN DataFrame(df.cols, [j \in 1..Len(sel) |-> df.index[sel[j]]],
               [j \in 1..Len(sel) |-> df.rows[sel[j]]])

\* a == b on cells: a comparison with a missing value is False
Eq(a, b, na) == a # na /\ b # na /\ a = b

\* the first occurrences of the elements of a sequence, in order
RECURSIVE Unique(_)
Unique(s) ==
  IF s = <<>> THEN <<>>
  ELSE LET init == Unique(SubSeq(s, 1, Len(s) - 1))
           last == s[Len(s)]
       IN IF \E i \in 1..Len(init) : init[i] = last THEN init ELSE Append(init, last)

Reverse(s) == [i \in 1..Len(s) |-> s[Len(s) + 1 - i]]

\* (mutant) drop_duplicates(keep='last'): the combinations in the order of
\* their last occurrence
drop_duplicates_last(df) ==
  Reverse(Unique(Reverse(
    [i \in 1..Len(df.rows) |-> <<df.rows[i]["project"], df.rows[i]["shire"]>>])))

\* agg_df[['project', 'shire']].drop_duplicates(): missing values count as equal
drop_duplicates(df) ==
  Unique([i \in 1..Len(df.rows) |-> <<df.rows[i]["project"], df.rows[i]["shire"]>>])

\* pid_subset['project_description'].dropna().unique()
PidDescriptions(pid_subset) ==
  Unique(SelectSeq([i \in 1..Len(pid_subset.rows) |->
                      pid_subset.rows[i]["project_description"]],
                   LAMBDA d : ~isna(d)))

\* a row with the cells of upd added or overwritten
SetCells(row, upd) ==
  [c \in DOMAIN row \cup DOMAIN upd |-> IF c \in DOMAIN upd THEN upd[c] ELSE row[c]]

\* pd.concat(frames, ignore_index=True): the union of the columns, a missing
\* cell where a frame lacks a column, and a fresh index
concat(frames) ==
  LET cols == UNION {frames[i].cols : i \in 1..Len(frames)}
      rows == Flatten([i \in 1..Len(frames) |-> frames[i].rows])
  IN DataFrame(cols, [j \in 1..Len(rows) |-> j],
               [j \in 1..Len(rows) |->
                  [c \in cols |-> IF c \in DOMAIN rows[j] THEN rows[j][c] ELSE NaOf(c)]])

\* df[col] = df[col].fillna(value)
fillna(df, col, value) ==
  DataFrame(df.cols, df.index,
            [j \in 1..Len(df.rows) |->
               [df.rows[j] EXCEPT ![col] = IF @ = NaOf(col) THEN value ELSE @]])

\* ------------------------------------------------------------ state
VARIABLES
  pc,                  \* where the call of merge_with_pid_fuzzy stands
  agg_arg, pid_arg,    \* the caller's tables (pid_arg may be None)
  agg_df, pid_df,      \* the copies merge_with_pid_fuzzy works on
  unique_combinations, \* the distinct (project, shire) pairs of agg_df
  idx,                 \* the loop's position in unique_combinations, from 1
  matched_rows,        \* the list of frames collected by the loop
  progress_bar,        \* [shown: values passed to progress(), cleared: empty() called]
  warnings,            \* the st.warning messages, as [table, missing]
  result,              \* the returned table, None before the return
  origin,              \* index labels of the rows of result before ignore_index
  error,               \* the exception that ended the call, "" when none
  fbm,                 \* a find_best_match experiment: [target, candidates, results]
  first,               \* what an earlier call on the same reference table ended with
  script,              \* the main script around the call: [stage, ...]
  pre,                 \* a preprocess_string experiment: [stage, text, once, twice]
  session_state,       \* st.session_state: key |-> value
  presses              \* the buttons pressed so far, oldest first

vars == <<pc, agg_arg, pid_arg, agg_df, pid_df, unique_combinations, idx,
          matched_rows, progress_bar, warnings, result, origin, error, fbm,
          first, script, pre, session_state, presses>>

\* the drill-down state of the materials section
Widgets == <<session_state, presses>>

\* what the steps of merge_with_pid_fuzzy never touch
Outside == <<fbm, first, script, pre, Widgets>>

required_agg_cols == <<"project", "shire", "segmentdesc">>
required_pid_cols == <<"project", "shire", "project_description", "pid_ohl_nr">>

Range(s) == {s[i] : i \in 1..Len(s)}

\* ------------------------------------------------------------ inputs
AggKeys == {<<"P1", "S1">>, <<"P1", "S2">>, <<NaS, "S1">>}
PidKeys == {<<"P1", "S1">>, <<NaS, "S1">>}
SegDescs == {NaT, <<>>, <<"a", "b">>}
PidDescs == {NaT, <<>>, <<"A", "b">>, <<"a", "c">>, <<" ">>}
PidIds == <<"OHL-1", "OHL-2", "OHL-3", "OHL-4">>

\* the value an optional column holds in every input row
OwnValue(c) ==
  CASE c \in TextCols -> <<"o", "w", "n">>
    [] c \in NumCols -> 50
    [] OTHER -> "own"

AggRow(cols, k, d) ==
  [c \in cols |-> CASE c = "project" -> k[1]
                    [] c = "shire" -> k[2]
                    [] c = "segmentdesc" -> d
                    [] OTHER -> OwnValue(c)]

PidRow(cols, k, d, id) ==
  [c \in cols |-> CASE c = "project" -> k[1]
                    [] c = "shire" -> k[2]
                    [] c = "project_description" -> d
                    [] c = "pid_ohl_nr" -> id
                    [] OTHER -> OwnValue(c)]

AggTable(cols, kd) ==
  DataFrame(cols, [i \in 1..Len(kd) |-> i],
            [i \in 1..Len(kd) |-> AggRow(cols, kd[i][1], kd[i][2])])

\* the j-th reference row carries the j-th identifier, or none
PidTable(cols, kdi) ==
  DataFrame(cols, [j \in 1..Len(kdi) |-> j],
            [j \in 1..Len(kdi) |->
               PidRow(cols, kdi[j][1], kdi[j][2], IF kdi[j][3] THEN PidIds[j] ELSE NaS)])

AggBase == Range(required_agg_cols)
PidBase == Range(required_pid_cols)

\* column sets of the aggregated table: complete, incomplete, with columns
\* named like the enrichment fields
AggSchemas ==
  {AggBase, {"project"}, AggBase \ {"segmentdesc"},
   AggBase \cup {"item", "project_description"},
   AggBase \cup {"pid_ohl_nr", "match_score"},
   AggBase \cup {"matched_project_description", "match_score", "pid_ohl_nr"}}

PidSchemas ==
  {PidBase, {"project", "shire"}, PidBase \ {"pid_ohl_nr"}, PidBase \cup {"voltage"}}

\* the inputs: tables over the required columns with at most MaxRows rows in
\* all, and tables over every column set (or no reference table at all) with
\* at most MaxWide rows in all
InputTables(a, p) ==
  \/ \E na \in 0..MaxAgg, np \in 0..MaxPid :
       /\ na + np <= MaxRows
       /\ \E kd \in [1..na -> AggKeys \X SegDescs],
             kdi \in [1..np -> PidKeys \X PidDescs \X BOOLEAN] :
            /\ a = AggTable(AggBase, kd)
            /\ p = PidTable(PidBase, kdi)
  \/ \E na \in 0..MaxWide, np \in 0..MaxWide :
       /\ na + np <= MaxWide
       /\ \E acs \in AggSchemas, kd \in [1..na -> AggKeys \X SegDescs] :
            /\ a = AggTable(acs, kd)
            /\ \/ p = None
               \/ \E pcs \in PidSchemas,
                     kdi \in [1..np -> PidKeys \X PidDescs \X BOOLEAN] :
                    p = PidTable(pcs, kdi)

IdleFbm == [target |-> NaT, candidates |-> <<>>, results |-> <<>>]

\* no earlier call
NoFirst == [kind |-> "none", pc |-> "", result |-> None, error |-> ""]

\* merge_with_pid_fuzzy called on its own, outside the main script
NoScript ==
  [stage |-> "none", fuzzy_match_enabled |-> FALSE, enriched_df |-> None,
   files |-> [aggregated |-> "ok", pid |-> "ok"],
   data |-> [aggregated |-> FALSE, pid |-> FALSE],
   messages |-> <<>>]

\* preprocess_string not called
NoPre == [stage |-> "none", text |-> NaT, once |-> <<>>, twice |-> <<>>]

\* nothing selected, no button pressed
NoWidgets == session_state = <<>> /\ presses = <<>>

Init ==
  /\ pc = "call"
  /\ InputTables(agg_arg, pid_arg)
  /\ agg_df = None
  /\ pid_df = None
  /\ unique_combinations = <<>>
  /\ idx = 1
  /\ matched_rows = <<>>
  /\ progress_bar = [shown |-> <<>>, cleared |-> FALSE]
  /\ warnings = <<>>
  /\ result = None
  /\ origin = <<>>
  /\ error = ""
  /\ fbm = IdleFbm
  /\ first = NoFirst
  /\ script = NoScript
  /\ pre = NoPre
  /\ NoWidgets

\* ------------------------------------------------------------ merge_with_pid_fuzzy
missing_agg == SelectSeq(required_agg_cols, LAMBDA col : col \notin agg_arg.cols)
missing_pid == SelectSeq(required_pid_cols, LAMBDA col : col \notin pid_arg.cols)

LoopVars == <<unique_combinations, idx, matched_rows, progress_bar>>

\* the state of a call, its warnings aside
MergeVars == <<pc, agg_arg, pid_arg, agg_df, pid_df, unique_combinations, idx,
               matched_rows, progress_bar, result, origin, error>>

\* if pid_df is None or agg_df.empty: return agg_df.copy()
ReturnEarly ==
  /\ pc = "call"
  /\ pid_arg.isNone \/ empty(agg_arg)
  /\ result' = agg_arg
  /\ origin' = agg_arg.index
  /\ pc' = "returned"
  /\ UNCHANGED <<agg_arg, pid_arg, agg_df, pid_df, LoopVars, warnings, error, Outside>>

\* if missing_agg: warn and return the copy of the aggregated table
ReturnMissingAgg ==
  /\ pc = "call"
  /\ ~(pid_arg.isNone \/ empty(agg_arg))
  /\ missing_agg # <<>>
  /\ agg_df' = agg_arg
  /\ pid_df' = pid_arg
  /\ warnings' = Append(warnings, [table |-> "aggregated", missing |-> missing_agg])
  /\ result' = agg_arg
  /\ origin' = agg_arg.index
  /\ pc' = "returned"
  /\ UNCHANGED <<agg_arg, pid_arg, LoopVars, error, Outside>>

\* (mutant) the reference table is returned in place of the aggregated one
ReturnMissingPidWrongTable ==
  /\ pc = "call"
  /\ ~(pid_arg.isNone \/ empty(agg_arg))
  /\ missing_agg = <<>>
  /\ missing_pid # <<>>
  /\ agg_df' = agg_arg
  /\ pid_df' = pid_arg
  /\ warnings' = Append(warnings, [table |-> "PID", missing |-> missing_pid])
  /\ result' = pid_arg
  /\ origin' = pid_arg.index
  /\ pc' = "returned"
  /\ UNCHANGED <<agg_arg, pid_arg, LoopVars, error, Outside>>

\* if missing_pid: warn and return the copy of the aggregated table
ReturnMissingPid ==
  /\ pc = "call"
  /\ ~(pid_arg.isNone \/ empty(agg_arg))
  /\ missing_agg = <<>>
  /\ missing_pid # <<>>
  /\ agg_df' = agg_arg
  /\ pid_df' = pid_arg
  /\ warnings' = Append(warnings, [table |-> "PID", missing |-> missing_pid])
  /\ result' = agg_arg
  /\ origin' = agg_arg.index
  /\ pc' = "returned"
  /\ UNCHANGED <<agg_arg, pid_arg, LoopVars, error, Outside>>

\* (mutant) matched_rows is not started afresh: the frames an earlier call
\* collected are still in it
BeginLoopKeepsRows ==
  /\ pc = "call"
  /\ ~(pid_arg.isNone \/ empty(agg_arg))
  /\ missing_agg = <<>>
  /\ missing_pid = <<>>
  /\ agg_df' = agg_arg
  /\ pid_df' = pid_arg
  /\ unique_combinations' = drop_duplicates(agg_arg)
  /\ progress_bar' = [shown |-> <<<<0, 1>>>>, cleared |-> FALSE]
  /\ idx' = 1
  /\ pc' = "loop"
  /\ UNCHANGED <<agg_arg, pid_arg, matched_rows, warnings, result, origin, error,
                 Outside>>

\* the columns are there: the distinct combinations, progress(0), into the loop
BeginLoop ==
  /\ pc = "call"
  /\ ~(pid_arg.isNone \/ empty(agg_arg))
  /\ missing_agg = <<>>
  /\ missing_pid = <<>>
  /\ agg_df' = agg_arg
  /\ pid_df' = pid_arg
  /\ matched_rows' = <<>>
  /\ unique_combinations' = drop_duplicates(agg_arg)
  /\ progress_bar' = [shown |-> <<<<0, 1>>>>, cleared |-> FALSE]
  /\ idx' = 1
  /\ pc' = "loop"
  /\ UNCHANGED <<agg_arg, pid_arg, warnings, result, origin, error, Outside>>

\* (mutant) the partition is taken by project alone
SubsetAnyShire(df, project, shire) ==
  Filter(df, [i \in 1..Len(df.rows) |-> Eq(df.rows[i]["project"], project, NaS)])

\* the rows of df whose project and shire equal the given ones
Subset(df, project, shire) ==
  Filter(df, [i \in 1..Len(df.rows) |->
                /\ Eq(df.rows[i]["project"], project, NaS)
                /\ Eq(df.rows[i]["shire"], shire, NaS)])

\* Python truth of best_match: None and the empty string are false
Truthy(best_match) == best_match # NaT /\ best_match # <<>>

\* (mutant) the last reference row carrying the description is taken
MatchedPidRowLast(pid_subset, best_match) ==
  LET same == Filter(pid_subset,
                [i \in 1..Len(pid_subset.rows) |->
                   Eq(pid_subset.rows[i]["project_description"], best_match, NaT)])
  IN same.rows[Len(same.rows)]

\* pid_subset[pid_subset['project_description'] == best_match].iloc[0]
MatchedPidRow(pid_subset, best_match) ==
  Filter(pid_subset,
         [i \in 1..Len(pid_subset.rows) |->
            Eq(pid_subset.rows[i]["project_description"], best_match, NaT)]).rows[1]

\* (mutant) only the three enrichment fields are written
NewRowThreeFields(agg_row, pid_subset, best_match, match_score) ==
  LET matched_pid_row == MatchedPidRow(pid_subset, best_match)
  IN SetCells(agg_row,
       [matched_project_description |-> best_match,
        match_score |-> match_score,
        pid_ohl_nr |-> matched_pid_row["pid_ohl_nr"]])

\* the row built for an accepted match
NewRow(agg_row, pid_subset, best_match, match_score) ==
  LET matched_pid_row == MatchedPidRow(pid_subset, best_match)
      new_row == SetCells(agg_row,
                   [matched_project_description |-> best_match,
                    match_score |-> match_score,
                    pid_ohl_nr |-> matched_pid_row["pid_ohl_nr"],
                    project_description |-> best_match])
      others == {col \in pid_subset.cols :
                   col \notin DOMAIN new_row /\ col \notin {"project", "shire"}}
  IN SetCells(new_row, [col \in others |-> matched_pid_row[col]])

\* (mutant) an unmatched row is given the best score that was computed
RowFrameScored(agg_row, label, pid_subset, pid_descriptions) ==
  LET segment_desc == agg_row["segmentdesc"]
      found == find_best_match(segment_desc, pid_descriptions, Threshold)
      best_match == found[1]
      match_score == found[2]
      computed == find_best_match(segment_desc, pid_descriptions, 0)[2]
      scored == SetCells(agg_row, [match_score |-> computed])
  IN IF isna(segment_desc)
     THEN DataFrame(DOMAIN agg_row, <<label>>, <<agg_row>>)
     ELSE IF Truthy(best_match) /\ match_score >= Threshold
     THEN LET new_row == NewRow(agg_row, pid_subset, best_match, match_score)
          IN DataFrame(DOMAIN new_row, <<label>>, <<new_row>>)
     ELSE DataFrame(DOMAIN scored, <<label>>, <<scored>>)

\* the body of the inner loop: the one-row frame appended for agg_row
RowFrame(agg_row, label, pid_subset, pid_descriptions) ==
  LET segment_desc == agg_row["segmentdesc"]
      found == find_best_match(segment_desc, pid_descriptions, Threshold)
      best_match == found[1]
      match_score == found[2]
  IN IF isna(segment_desc)
     THEN DataFrame(DOMAIN agg_row, <<label>>, <<agg_row>>)
     ELSE IF Truthy(best_match) /\ match_score >= Threshold
     THEN LET new_row == NewRow(agg_row, pid_subset, best_match, match_score)
          IN DataFrame(DOMAIN new_row, <<label>>, <<new_row>>)
     ELSE DataFrame(DOMAIN agg_row, <<label>>, <<agg_row>>)

\* (mutant) the inner loop runs over every row of agg_df, not over agg_subset
IterationAllRows(project, shire) ==
  LET agg_subset == Subset(agg_df, project, shire)
      pid_subset == Subset(pid_df, project, shire)
      pid_descriptions == PidDescriptions(pid_subset)
  IN IF empty(pid_subset)
     THEN <<agg_subset>>
     ELSE [i \in 1..Len(agg_df.rows) |->
             RowFrame(agg_df.rows[i], agg_df.index[i],
                      pid_subset, pid_descriptions)]

\* the frames one iteration of the outer loop appends to matched_rows
Iteration(project, shire) ==
  LET agg_subset == Subset(agg_df, project, shire)
      pid_subset == Subset(pid_df, project, shire)
      pid_descriptions == PidDescriptions(pid_subset)
  IN IF empty(pid_subset)
     THEN <<agg_subset>>
     ELSE [i \in 1..Len(agg_subset.rows) |->
             RowFrame(agg_subset.rows[i], agg_subset.index[i],
                      pid_subset, pid_descriptions)]

\* (mutant) progress is reported as idx / total, not (idx + 1) / total
LoopStepFromZero ==
  /\ pc = "loop"
  /\ idx <= Len(unique_combinations)
  /\ progress_bar' = [progress_bar EXCEPT
                        !.shown = Append(@, <<idx - 1, Len(unique_combinations)>>)]
  /\ matched_rows' = matched_rows \o
                       Iteration(unique_combinations[idx][1], unique_combinations[idx][2])
  /\ idx' = idx + 1
  /\ UNCHANGED <<pc, agg_arg, pid_arg, agg_df, pid_df, unique_combinations,
                 warnings, result, origin, error, Outside>>

\* one iteration of the loop over unique_combinations
LoopStep ==
  /\ pc = "loop"
  /\ idx <= Len(unique_combinations)
  /\ progress_bar' = [progress_bar EXCEPT
                        !.shown = Append(@, <<idx, Len(unique_combinations)>>)]
  /\ matched_rows' = matched_rows \o
                       Iteration(unique_combinations[idx][1], unique_combinations[idx][2])
  /\ idx' = idx + 1
  /\ UNCHANGED <<pc, agg_arg, pid_arg, agg_df, pid_df, unique_combinations,
                 warnings, result, origin, error, Outside>>

EnrichmentCols == <<"matched_project_description", "match_score", "pid_ohl_nr">>

\* the enrichment columns result_df lacks, in the order the code reads them
MissingEnrichment(df) == SelectSeq(EnrichmentCols, LAMBDA col : col \notin df.cols)

Filled(df) ==
  fillna(fillna(fillna(df, "matched_project_description", NoMatch),
                "match_score", 0),
         "pid_ohl_nr", NotAvailable)

\* (mutant) the enrichment is written into the caller's aggregated table
CombineInPlace ==
  /\ pc = "loop"
  /\ idx > Len(unique_combinations)
  /\ progress_bar' = [progress_bar EXCEPT !.cleared = TRUE]
  /\ LET result_df == concat(matched_rows)
     IN IF matched_rows = <<>>
        THEN /\ result' = agg_df
             /\ origin' = agg_df.index
             /\ error' = ""
             /\ pc' = "returned"
        ELSE IF MissingEnrichment(result_df) # <<>>
        THEN /\ error' = "KeyError"
             /\ pc' = "raised"
             /\ UNCHANGED <<result, origin>>
        ELSE /\ result' = Filled(result_df)
             /\ origin' = Flatten([i \in 1..Len(matched_rows) |-> matched_rows[i].index])
             /\ error' = ""
             /\ pc' = "returned"
  /\ agg_arg' = IF pc' = "returned" THEN result' ELSE agg_arg
  /\ UNCHANGED <<pid_arg, agg_df, pid_df, unique_combinations, idx,
                 matched_rows, warnings, Outside>>

\* after the loop: progress_bar.empty(), concat, fillna, return
Combine ==
  /\ pc = "loop"
  /\ idx > Len(unique_combinations)
  /\ progress_bar' = [progress_bar EXCEPT !.cleared = TRUE]
  /\ LET result_df == concat(matched_rows)
     IN IF matched_rows = <<>>
        THEN /\ result' = agg_df
             /\ origin' = agg_df.index
             /\ error' = ""
             /\ pc' = "returned"
        ELSE IF MissingEnrichment(result_df) # <<>>
        THEN /\ error' = "KeyError"
             /\ pc' = "raised"
             /\ UNCHANGED <<result, origin>>
        ELSE /\ result' = Filled(result_df)
             /\ origin' = Flatten([i \in 1..Len(matched_rows) |-> matched_rows[i].index])
             /\ error' = ""
             /\ pc' = "returned"
  /\ UNCHANGED <<agg_arg, pid_arg, agg_df, pid_df, unique_combinations, idx,
                 matched_rows, warnings, Outside>>

Next ==
  \/ ReturnEarly
  \/ ReturnMissingAgg
  \/ ReturnMissingPid
  \/ BeginLoop
  \/ LoopStep
  \/ Combine

Spec == Init /\ [][Next]_vars

\* ------------------------------------------------------------ find_best_match alone
\* find_best_match applied to one target and one candidate list at several
\* thresholds, the result of each threshold kept side by side
Chars == {"a", "b"}
Texts == UNION {[1..n -> Chars] : n \in 0..MaxLen} \cup {<<"A">>, <<"-">>}
Thresholds == {0, 75, 100}

IdleMerge ==
  /\ pc = "idle"
  /\ agg_arg = None
  /\ pid_arg = None
  /\ agg_df = None
  /\ pid_df = None
  /\ unique_combinations = <<>>
  /\ idx = 1
  /\ matched_rows = <<>>
  /\ progress_bar = [shown |-> <<>>, cleared |-> FALSE]
  /\ warnings = <<>>
  /\ result = None
  /\ origin = <<>>
  /\ error = ""
  /\ first = NoFirst
  /\ script = NoScript
  /\ NoWidgets

InitFbm ==
  /\ IdleMerge
  /\ pre = NoPre
  /\ \E target \in Texts \cup {NaT}, n \in 0..MaxCand :
       \E candidates \in [1..n -> Texts \cup {NaT}] :
         fbm = [target |-> target, candidates |-> candidates, results |-> <<>>]

CallFindBestMatch ==
  /\ pc = "idle"
  /\ \E threshold \in Thresholds \ DOMAIN fbm.results :
       LET found == find_best_match(fbm.target, fbm.candidates, threshold)
       IN fbm' = [fbm EXCEPT !.results =
                    [t \in DOMAIN fbm.results \cup {threshold} |->
                       IF t = threshold
                       THEN [best_match |-> found[1], best_score |-> found[2]]
                       ELSE fbm.results[t]]]
  /\ UNCHANGED <<pc, agg_arg, pid_arg, agg_df, pid_df, unique_combinations, idx,
                 matched_rows, progress_bar, warnings, result, origin, error,
                 first, script, pre, Widgets>>

NextFbm == CallFindBestMatch

SpecFbm == InitFbm /\ [][NextFbm]_vars

\* ------------------------------------------------------------ preprocess_string alone
\* preprocess_string applied to a text, and once more to what it returned
TextChars == {"a", "A", " ", "-"}
RawTexts == UNION {[1..n -> TextChars] : n \in 0..MaxText} \cup {NaT}

InitPre ==
  /\ IdleMerge
  /\ fbm = IdleFbm
  /\ \E text \in RawTexts : pre = [NoPre EXCEPT !.stage = "given", !.text = text]

Preprocess ==
  /\ pre.stage = "given"
  /\ pre' = [pre EXCEPT !.stage = "once", !.once = preprocess_string(pre.text)]
  /\ UNCHANGED <<MergeVars, warnings, fbm, first, script, Widgets>>

PreprocessAgain ==
  /\ pre.stage = "once"
  /\ pre' = [pre EXCEPT !.stage = "twice", !.twice = preprocess_string(pre.once)]
  /\ UNCHANGED <<MergeVars, warnings, fbm, first, script, Widgets>>

NextPre ==
  \/ Preprocess
  \/ PreprocessAgain

SpecPre == InitPre /\ [][NextPre]_vars

\* ------------------------------------------------------------ main script
\* load_data_files, the test of the aggregated table, then the fuzzy merge
\* step: the sidebar checkbox, merge_with_pid_fuzzy or a plain copy, and the
\* stages that follow. A parquet file is there and readable ("ok"), not there
\* ("absent") or unreadable ("broken"); agg_arg and pid_arg are what the files
\* hold, None for a file that cannot be loaded.
FileStates == {"ok", "absent", "broken"}

InitMain ==
  /\ pc = "call"
  /\ \/ InputTables(agg_arg, pid_arg)
     \/ /\ agg_arg = None
        /\ pid_arg \in {None, DataFrame(PidBase, <<>>, <<>>)}
  /\ agg_df = None
  /\ pid_df = None
  /\ unique_combinations = <<>>
  /\ idx = 1
  /\ matched_rows = <<>>
  /\ progress_bar = [shown |-> <<>>, cleared |-> FALSE]
  /\ warnings = <<>>
  /\ result = None
  /\ origin = <<>>
  /\ error = ""
  /\ fbm = IdleFbm
  /\ first = NoFirst
  /\ pre = NoPre
  /\ NoWidgets
  /\ \E fuzzy_match_enabled \in BOOLEAN, aggregated \in FileStates, pid \in FileStates :
       /\ (aggregated = "ok") <=> ~agg_arg.isNone
       /\ (pid = "ok") <=> ~pid_arg.isNone
       /\ script = [NoScript EXCEPT
                      !.stage = "load",
                      !.fuzzy_match_enabled = fuzzy_match_enabled,
                      !.files = [aggregated |-> aggregated, pid |-> pid]]

\* the sidebar message load_data_files shows for one file
LoadMessage(name, state) ==
  [kind |-> IF state = "ok" THEN "success"
            ELSE IF state = "absent" THEN "warning" ELSE "error",
   about |-> name]

\* load_data_files: data[name] is the table, or None for a file that is not
\* there or cannot be read, each with its sidebar message
LoadDataFiles ==
  /\ script.stage = "load"
  /\ script' = [script EXCEPT
                  !.stage = "loaded",
                  !.data = [name \in {"aggregated", "pid"} |-> script.files[name] = "ok"],
                  !.messages = <<LoadMessage("aggregated", script.files["aggregated"]),
                                 LoadMessage("pid", script.files["pid"])>>]
  /\ UNCHANGED <<MergeVars, warnings, fbm, first, pre, Widgets>>

\* if data.get("aggregated") is None: st.error(...), st.stop()
StopNoAggregated ==
  /\ script.stage = "loaded"
  /\ ~script.data["aggregated"]
  /\ script' = [script EXCEPT
                  !.stage = "halted",
                  !.messages = Append(@, [kind |-> "error", about |-> "main aggregated data"])]
  /\ UNCHANGED <<MergeVars, warnings, fbm, first, pre, Widgets>>

\* (mutant) the call is made whenever the checkbox is ticked
MainCallUnguarded ==
  /\ script.stage = "loaded"
  /\ script.data["aggregated"]
  /\ script.fuzzy_match_enabled
  /\ script' = [script EXCEPT !.stage = "merging"]
  /\ UNCHANGED <<MergeVars, warnings, fbm, first, pre, Widgets>>

\* if fuzzy_match_enabled and pid_df is not None: enter merge_with_pid_fuzzy
MainCall ==
  /\ script.stage = "loaded"
  /\ script.data["aggregated"]
  /\ script.fuzzy_match_enabled /\ script.data["pid"]
  /\ script' = [script EXCEPT !.stage = "merging"]
  /\ UNCHANGED <<MergeVars, warnings, fbm, first, pre, Widgets>>

\* else: enriched_df = agg_df.copy(), with a warning when the reference table
\* is missing
SkipMerge ==
  /\ script.stage = "loaded"
  /\ script.data["aggregated"]
  /\ ~(script.fuzzy_match_enabled /\ script.data["pid"])
  /\ script' = [script EXCEPT !.stage = "mapping", !.enriched_df = agg_arg]
  /\ warnings' = IF script.fuzzy_match_enabled /\ ~script.data["pid"]
                 THEN Append(warnings, [table |-> "PID", missing |-> <<>>])
                 ELSE warnings
  /\ UNCHANGED <<MergeVars, fbm, first, pre, Widgets>>

\* a step of merge_with_pid_fuzzy, called by the script
MergeStep ==
  /\ script.stage = "merging"
  /\ Next

\* the call returned: enriched_df is its result, the statistics are shown and
\* the script goes on to the mapping, filter and display stages
AfterMerge ==
  /\ script.stage = "merging"
  /\ pc = "returned"
  /\ script' = [script EXCEPT !.stage = "mapping", !.enriched_df = result]
  /\ UNCHANGED <<MergeVars, warnings, fbm, first, pre, Widgets>>

\* the call raised: nothing around it catches the exception, the run stops
Uncaught ==
  /\ script.stage = "merging"
  /\ pc = "raised"
  /\ script' = [script EXCEPT !.stage = "stopped"]
  /\ UNCHANGED <<MergeVars, warnings, fbm, first, pre, Widgets>>

NextMain ==
  \/ LoadDataFiles
  \/ StopNoAggregated
  \/ MainCall
  \/ SkipMerge
  \/ MergeStep
  \/ AfterMerge
  \/ Uncaught

SpecMain == InitMain /\ [][NextMain]_vars

\* ------------------------------------------------------------ a second call
\* merge_with_pid_fuzzy called a second time with the same reference table,
\* either on the same aggregated table or on the first result cut back to the
\* columns of the aggregated table. What the first call left in its working
\* state is still there when the second one starts.
Project(df, cols) ==
  DataFrame(cols, df.index,
            [j \in 1..Len(df.rows) |-> [c \in cols |-> df.rows[j][c]]])

Ending == [kind |-> "none", pc |-> pc, result |-> result, error |-> error]

\* the same call once more
CallAgain ==
  /\ pc \in {"returned", "raised"}
  /\ first.kind = "none"
  /\ first' = [Ending EXCEPT !.kind = "again"]
  /\ pc' = "call"
  /\ result' = None
  /\ origin' = <<>>
  /\ error' = ""
  /\ warnings' = <<>>
  /\ UNCHANGED <<agg_arg, pid_arg, agg_df, pid_df, LoopVars, fbm, script, pre, Widgets>>

\* merge_with_pid_fuzzy(result[agg_df.columns], pid_df)
Reenrich ==
  /\ pc = "returned"
  /\ first.kind = "none"
  /\ first' = [Ending EXCEPT !.kind = "reenrich"]
  /\ agg_arg' = Project(result, agg_arg.cols)
  /\ pc' = "call"
  /\ result' = None
  /\ origin' = <<>>
  /\ error' = ""
  /\ warnings' = <<>>
  /\ UNCHANGED <<pid_arg, agg_df, pid_df, LoopVars, fbm, script, pre, Widgets>>

NextTwice ==
  \/ Next
  \/ CallAgain
  \/ Reenrich

SpecTwice == Init /\ [][NextTwice]_vars

\* ------------------------------------------------------------ one key alone
\* merge_with_pid_fuzzy called a second time after every aggregated row and
\* every reference row of another key has been taken out of the two tables
OnlyKey(df, key) ==
  Filter(df, [i \in 1..Len(df.rows) |->
                /\ df.rows[i]["project"] = key[1]
                /\ df.rows[i]["shire"] = key[2]])

CallWithoutOthers ==
  /\ pc \in {"returned", "raised"}
  /\ progress_bar.shown # <<>>
  /\ first.kind = "none"
  /\ \E i \in 1..Len(agg_arg.rows) :
       LET key == <<agg_arg.rows[i]["project"], agg_arg.rows[i]["shire"]>>
       IN /\ key[1] # NaS
          /\ key[2] # NaS
          /\ agg_arg' = OnlyKey(agg_arg, key)
          /\ pid_arg' = OnlyKey(pid_arg, key)
  /\ first' = [Ending EXCEPT !.kind = "others removed"]
  /\ pc' = "call"
  /\ result' = None
  /\ origin' = <<>>
  /\ error' = ""
  /\ warnings' = <<>>
  /\ UNCHANGED <<agg_df, pid_df, LoopVars, fbm, script, pre, Widgets>>

NextApart ==
  \/ Next
  \/ CallWithoutOthers

SpecApart == Init /\ [][NextApart]_vars

\* ------------------------------------------------------------ drill-down selection
\* the mapping buttons and the 'Clear Selection' button of the categories of
\* the materials section, one press per run of the script
Categories == {"Poles", "Conductors", "Conductors_2"}
Mappings == {"", "m1", "m2"}

\* (mutant) one key for every category
SessionKeyShared(cat_name) == <<"selected_", "">>

\* f"selected_{cat_name}"
SessionKey(cat_name) == <<"selected_", cat_name>>

\* st.session_state[key] = value
SetItem(state, key, value) ==
  [k \in DOMAIN state \cup {key} |-> IF k = key THEN value ELSE state[k]]

\* del st.session_state[key]
DelItem(state, key) == [k \in DOMAIN state \ {key} |-> state[k]]

InitDrill ==
  /\ IdleMerge
  /\ fbm = IdleFbm
  /\ pre = NoPre

\* if st.button(mapping_value): st.session_state[f"selected_{cat_name}"] = mapping_value
PressMapping ==
  /\ Len(presses) < MaxPresses
  /\ \E cat_name \in Categories, mapping_value \in Mappings :
       /\ session_state' = SetItem(session_state, SessionKey(cat_name), mapping_value)
       /\ presses' = Append(presses, [button |-> "mapping", cat_name |-> cat_name,
                                      mapping_value |-> mapping_value])
  /\ UNCHANGED <<MergeVars, warnings, fbm, first, script, pre>>

\* the button is drawn only if selected_mapping is truthy; pressed, it deletes
\* the key
PressClear ==
  /\ Len(presses) < MaxPresses
  /\ \E cat_name \in Categories :
       /\ SessionKey(cat_name) \in DOMAIN session_state
       /\ session_state[SessionKey(cat_name)] # ""
       /\ session_state' = DelItem(session_state, SessionKey(cat_name))
       /\ presses' = Append(presses, [button |-> "clear", cat_name |-> cat_name,
                                      mapping_value |-> ""])
  /\ UNCHANGED <<MergeVars, warnings, fbm, first, script, pre>>

NextDrill ==
  \/ PressMapping
  \/ PressClear

SpecDrill == InitDrill /\ [][NextDrill]_vars

\* ------------------------------------------------------------ properties
\* the call went through the matching loop and returned
Merged == pc = "returned" /\ progress_bar.cleared

\* the call is over, by a return or by an exception
Ended == pc \in {"returned", "raised"}

\* both tables are given, the aggregated one has rows, no required column is absent
MatchingInputs ==
  /\ ~pid_arg.isNone
  /\ ~empty(agg_arg)
  /\ missing_agg = <<>>
  /\ missing_pid = <<>>

Count(s, x) == Cardinality({i \in 1..Len(s) : s[i] = x})

\* the no-match result
Sentinel(row) ==
  /\ row["matched_project_description"] = NoMatch
  /\ row["match_score"] = 0
  /\ row["pid_ohl_nr"] = NotAvailable

\* the row of the result carries an accepted match
Accepted(row) ==
  row["matched_project_description"] \notin
    {NoMatch, OwnValue("matched_project_description")}

\* the reference rows sharing the key of an aggregated row
SharesKey(agg_row, pid_row) ==
  /\ Eq(agg_row["project"], pid_row["project"], NaS)
  /\ Eq(agg_row["shire"], pid_row["shire"], NaS)

\* C1: in every returned table each row of the aggregated input appears
\* exactly once, rows with a null project or shire included.
C1_EveryRowOnce ==
  pc = "returned" =>
    \A i \in 1..Len(agg_arg.rows) : Count(origin, agg_arg.index[i]) = 1

\* C2: the i-th returned row comes from the i-th input row, also when rows of
\* different (project, shire) keys are interleaved (stated for the returns that
\* kept every row).
C2_SameOrder ==
  (pc = "returned" /\ Len(origin) = Len(agg_arg.rows)) => origin = agg_arg.index

\* C3: with both tables given and complete the call never raises, and the
\* table it returns carries the three enrichment columns.
C3_NeverAborts ==
  /\ pc # "raised"
  /\ Merged => Range(EnrichmentCols) \subseteq result.cols

\* C4: in every returned row, match_score >= 75 exactly when pid_ohl_nr is not
\* 'Not Available'.
C4_ScoreIffId ==
  Merged =>
    \A j \in 1..Len(result.rows) :
      (result.rows[j]["match_score"] >= Threshold)
        <=> (result.rows[j]["pid_ohl_nr"] # NotAvailable)

\* C5: every accepted row of the result took its description and identifier
\* from a reference row whose project and shire equal its own.
C5_KeyBounded ==
  Merged =>
    \A j \in 1..Len(result.rows) :
      LET row == result.rows[j]
      IN Accepted(row) =>
           \E i \in 1..Len(pid_arg.rows) :
             LET pid_row == pid_arg.rows[i]
             IN /\ SharesKey(row, pid_row)
                /\ pid_row["project_description"] = row["matched_project_description"]
                /\ \/ pid_row["pid_ohl_nr"] = row["pid_ohl_nr"]
                   \/ /\ pid_row["pid_ohl_nr"] = NaS
                      /\ row["pid_ohl_nr"] = NotAvailable

\* a row was accepted while the reference table holds a described row of
\* another key, and a row was left unmatched although a reference row of
\* another key scores at or above the threshold against it
C5_Witness ==
  /\ Merged
  /\ \E j \in 1..Len(result.rows), i \in 1..Len(pid_arg.rows) :
       /\ Accepted(result.rows[j])
       /\ ~SharesKey(result.rows[j], pid_arg.rows[i])
       /\ ~isna(pid_arg.rows[i]["project_description"])
  /\ \E j \in 1..Len(result.rows), i \in 1..Len(pid_arg.rows) :
       /\ ~Accepted(result.rows[j])
       /\ ~SharesKey(result.rows[j], pid_arg.rows[i])
       /\ ~isna(result.rows[j]["segmentdesc"])
       /\ partial_ratio(preprocess_string(result.rows[j]["segmentdesc"]),
                        preprocess_string(pid_arg.rows[i]["project_description"]))
            >= Threshold

\* C6: an aggregated row whose key no reference row shares comes out with
\* 'No Match', 0 and 'Not Available' (aggregated table over the required
\* columns only).
C6_EmptyReferenceFallback ==
  (Ended /\ MatchingInputs /\ agg_arg.cols = AggBase) =>
    \A i \in 1..Len(agg_arg.rows) :
      (\A k \in 1..Len(pid_arg.rows) : ~SharesKey(agg_arg.rows[i], pid_arg.rows[k]))
        => /\ pc = "returned"
           /\ \E j \in 1..Len(origin) :
                origin[j] = agg_arg.index[i] /\ Sentinel(result.rows[j])

\* C7: an aggregated row whose segmentdesc is null or empty comes out with the
\* no-match sentinel, whatever the reference rows of its partition (stated for
\* the calls that returned and the rows they kept).
C7_AbsentDescription ==
  (Merged /\ agg_arg.cols = AggBase) =>
    \A j \in 1..Len(result.rows) :
      result.rows[j]["segmentdesc"] \in {NaT, <<>>} => Sentinel(result.rows[j])

\* C8: when a required column is absent from either table, no matching is done
\* and the aggregated table comes back with its rows, order and columns.
C8_MissingColumnsUnchanged ==
  (/\ pc = "returned"
   /\ ~pid_arg.isNone
   /\ ~empty(agg_arg)
   /\ (missing_agg # <<>> \/ missing_pid # <<>>))
  => /\ result = agg_arg
     /\ origin = agg_arg.index
     /\ matched_rows = <<>>
     /\ progress_bar.shown = <<>>

\* the call returned for a column absent from the reference table alone
C8_Witness ==
  /\ pc = "returned"
  /\ ~pid_arg.isNone
  /\ Len(agg_arg.rows) >= 1
  /\ Len(pid_arg.rows) >= 1
  /\ missing_agg = <<>>
  /\ missing_pid # <<>>
  /\ result = agg_arg

\* C9: when the call returns for missing columns, its warnings name every
\* absent required column of the aggregated table and of the reference table.
C9_DiagnosticNamesAll ==
  (pc = "returned" /\ ~pid_arg.isNone /\ ~empty(agg_arg)) =>
    /\ \A col \in Range(missing_agg) :
         \E w \in Range(warnings) : w.table = "aggregated" /\ col \in Range(w.missing)
    /\ \A col \in Range(missing_pid) :
         \E w \in Range(warnings) : w.table = "PID" /\ col \in Range(w.missing)

\* C10: for thresholds t1 <= t2, a candidate accepted by find_best_match at t2
\* is accepted, the same one with the same score, at t1.
C10_ThresholdMonotone ==
  \A t1, t2 \in DOMAIN fbm.results :
    (t1 <= t2 /\ fbm.results[t2].best_match # NaT)
    => /\ fbm.results[t1].best_match = fbm.results[t2].best_match
       /\ fbm.results[t1].best_score = fbm.results[t2].best_score

\* calls at thresholds t1 < t2 on two distinct candidates: the second
\* candidate is the one accepted at t2, the first one reaches t1 but not t2
C10_Witness ==
  /\ Len(fbm.candidates) = 2
  /\ fbm.candidates[1] # fbm.candidates[2]
  /\ ~isna(fbm.candidates[1])
  /\ \E t1, t2 \in DOMAIN fbm.results :
       /\ t1 < t2
       /\ fbm.results[t2].best_match = fbm.candidates[2]
       /\ fbm.results[t1].best_match = fbm.candidates[2]
       /\ LET score == partial_ratio(preprocess_string(fbm.target),
                                     preprocess_string(fbm.candidates[1]))
          IN score >= t1 /\ score < t2 /\ score > 0


\* the scores of an aggregated row's description against the non-null
\* descriptions of the reference rows that share its key
CandidateScores(agg_row) ==
  {partial_ratio(preprocess_string(agg_row["segmentdesc"]),
                 preprocess_string(pid_arg.rows[i]["project_description"])) :
     i \in {k \in 1..Len(pid_arg.rows) :
              /\ SharesKey(agg_row, pid_arg.rows[k])
              /\ ~isna(pid_arg.rows[k]["project_description"])}}

SetMax(S) == CHOOSE x \in S : \A y \in S : y <= x

\* C11: a returned row that had at least one candidate, the best of them
\* scoring s below the threshold, carries the no-match description and
\* identifier with match_score = s.
C11_SubThresholdScore ==
  (Merged /\ agg_arg.cols = AggBase) =>
    \A j \in 1..Len(result.rows) :
      LET row == result.rows[j]
          S == CandidateScores(row)
      IN (~isna(row["segmentdesc"]) /\ S # {} /\ SetMax(S) < Threshold) =>
           /\ row["matched_project_description"] = NoMatch
           /\ row["pid_ohl_nr"] = NotAvailable
           /\ row["match_score"] = SetMax(S)


\* the candidates find_best_match scores (the non-null ones), by position
Scored == {i \in 1..Len(fbm.candidates) : ~isna(fbm.candidates[i])}

FbmScore(i) ==
  partial_ratio(preprocess_string(fbm.target), preprocess_string(fbm.candidates[i]))

\* the first position, in iteration order, that reaches the highest score
FirstBest ==
  CHOOSE i \in Scored :
    /\ \A k \in Scored : FbmScore(k) <= FbmScore(i)
    /\ \A k \in Scored : k < i => FbmScore(k) < FbmScore(i)

\* C18: when find_best_match accepts a candidate, that candidate has the
\* highest score among the non-null candidates, the returned score is that
\* highest score, and among tied candidates the first in iteration order wins.
C18_BestCandidate ==
  \A t \in DOMAIN fbm.results :
    fbm.results[t].best_match # NaT =>
      /\ Scored # {}
      /\ fbm.results[t].best_score = FbmScore(FirstBest)
      /\ fbm.results[t].best_match = fbm.candidates[FirstBest]

\* two different candidates tie at the highest score and one was accepted
C18_Witness ==
  /\ Len(fbm.candidates) = 2
  /\ Scored = {1, 2}
  /\ fbm.candidates[1] # fbm.candidates[2]
  /\ FbmScore(1) = FbmScore(2)
  /\ \E t \in DOMAIN fbm.results : fbm.results[t].best_match = fbm.candidates[1]

\* C19: for a non-null target and a threshold of 0..100, find_best_match
\* returns a candidate exactly when the highest score among the non-null
\* candidates is at or above the threshold, threshold 0 with every candidate
\* scoring 0 included.
C19_AcceptIff ==
  \A t \in DOMAIN fbm.results :
    ~isna(fbm.target) =>
      ((fbm.results[t].best_match # NaT)
         <=> (\E i \in Scored : FbmScore(i) >= t))


\* the reference rows, by position, that share the key of a returned row and
\* carry the description it was matched to
Carriers(row) ==
  {i \in 1..Len(pid_arg.rows) :
     /\ SharesKey(row, pid_arg.rows[i])
     /\ pid_arg.rows[i]["project_description"] = row["matched_project_description"]}

SetMin(S) == CHOOSE x \in S : \A y \in S : x <= y

\* C20: when several reference rows of the partition carry the accepted
\* description, the pid_ohl_nr of the returned row is that of the first of
\* them in reference-table order.
C20_FirstDuplicate ==
  Merged =>
    \A j \in 1..Len(result.rows) :
      LET row == result.rows[j]
      IN Accepted(row) =>
           /\ Carriers(row) # {}
           /\ LET pid_row == pid_arg.rows[SetMin(Carriers(row))]
              IN \/ row["pid_ohl_nr"] = pid_row["pid_ohl_nr"]
                 \/ /\ pid_row["pid_ohl_nr"] = NaS
                    /\ row["pid_ohl_nr"] = NotAvailable

\* an accepted description is carried by two reference rows of the partition
\* with two different identifiers
C20_Witness ==
  /\ Merged
  /\ \E j \in 1..Len(result.rows) :
       LET row == result.rows[j]
       IN /\ Accepted(row)
          /\ Carriers(row) = {1, 2}
          /\ pid_arg.rows[1]["pid_ohl_nr"] # NaS
          /\ pid_arg.rows[2]["pid_ohl_nr"] # NaS
          /\ pid_arg.rows[1]["pid_ohl_nr"] # pid_arg.rows[2]["pid_ohl_nr"]
          /\ row["pid_ohl_nr"] = pid_arg.rows[1]["pid_ohl_nr"]


\* C14: no step of a call, whichever way it returns, changes the rows, columns
\* or values of the caller's aggregated table or reference table.
C14_InputsNotMutated == [][agg_arg' = agg_arg /\ pid_arg' = pid_arg]_vars

\* a call went through the matching loop and returned a table that differs
\* from the aggregated table it was given
C14_Witness ==
  /\ Merged
  /\ \E j \in 1..Len(result.rows) : Accepted(result.rows[j])
  /\ result.cols # agg_arg.cols
  /\ agg_df = agg_arg
  /\ pid_df = pid_arg


\* C15: in every returned row, matched or not, every column of the aggregated
\* input other than the three enrichment fields holds the value of the input
\* row it came from, a column named project_description or named like another
\* reference column included.
C15_PassThrough ==
  Merged =>
    \A j \in 1..Len(result.rows) :
      \A col \in agg_arg.cols \ Range(EnrichmentCols) :
        result.rows[j][col] = agg_arg.rows[origin[j]][col]


\* C16 as stated: when matching runs, the columns of the returned table are
\* exactly the aggregated input's columns plus the three appended fields.
C16_ThreeFieldsOnly ==
  Merged => result.cols = agg_arg.cols \cup Range(EnrichmentCols)

\* C16, amended: when matching runs and at least one row is matched, the
\* columns of the returned table are the aggregated input's columns plus
\* matched_project_description, match_score and every reference column other
\* than project and shire (pid_ohl_nr and project_description among them);
\* when no row is matched and the call returns, they are the aggregated
\* input's columns.
C16_OutputShape ==
  Merged =>
    result.cols =
      IF \E j \in 1..Len(result.rows) : Accepted(result.rows[j])
      THEN agg_arg.cols \cup {"matched_project_description", "match_score"}
             \cup (pid_arg.cols \ {"project", "shire"})
      ELSE agg_arg.cols

\* a row was matched against a reference table that has a column beyond the
\* required ones, and the returned table carries that column
C16_Witness ==
  /\ Merged
  /\ \E j \in 1..Len(result.rows) : Accepted(result.rows[j])
  /\ "voltage" \in pid_arg.cols
  /\ "voltage" \in result.cols
  /\ "voltage" \notin agg_arg.cols


\* C17: whatever the checkbox, the reference table, the columns and the
\* matches, the main script is never stopped at the reconciliation step, and
\* it goes on with an enriched_df that has the rows of the aggregated table.
C17_BestEffort ==
  /\ script.stage # "stopped"
  /\ script.stage = "mapping" =>
       /\ Len(script.enriched_df.rows) = Len(agg_arg.rows)
       /\ \A j \in 1..Len(agg_arg.rows) :
            \A col \in {"project", "shire"} \cap agg_arg.cols :
              \E k \in 1..Len(script.enriched_df.rows) :
                script.enriched_df.rows[k][col] = agg_arg.rows[j][col]


\* C12: a second call on the same aggregated and reference tables ends as the
\* first one did, with the same table (rows, order, columns, values), whatever
\* the first call left behind and whatever was shown as progress.
C12_Deterministic ==
  (first.kind = "again" /\ Ended) =>
    /\ pc = first.pc
    /\ error = first.error
    /\ result = first.result

\* the second of two calls returned a table with a matched and an unmatched
\* row, after the first had left its frames and its cleared progress bar
C12_Witness ==
  /\ first.kind = "again"
  /\ first.pc = "returned"
  /\ pc = "returned"
  /\ Len(matched_rows) >= 2
  /\ Len(progress_bar.shown) >= 2
  /\ \E j \in 1..Len(result.rows) : Accepted(result.rows[j])
  /\ \E j \in 1..Len(result.rows) : Sentinel(result.rows[j])

\* C13: the first result cut back to the columns of the aggregated table and
\* enriched again with the same reference table gives, row by row, the same
\* matched_project_description, match_score and pid_ohl_nr, also when the
\* aggregated table has its own project_description or pid_ohl_nr column.
C13_Reenrichment ==
  (first.kind = "reenrich" /\ Ended) =>
    /\ pc = "returned"
    /\ Len(result.rows) = Len(first.result.rows)
    /\ \A col \in Range(EnrichmentCols) :
         /\ col \in result.cols <=> col \in first.result.cols
         /\ col \in result.cols =>
              \A j \in 1..Len(result.rows) :
                result.rows[j][col] = first.result.rows[j][col]

\* a table with its own project_description column was enriched, cut back and
\* enriched again, a matched row in it
C13_Witness ==
  /\ first.kind = "reenrich"
  /\ pc = "returned"
  /\ progress_bar.cleared
  /\ "project_description" \in agg_arg.cols
  /\ \E j \in 1..Len(result.rows) :
       /\ Accepted(result.rows[j])
       /\ result.rows[j]["pid_ohl_nr"] # NotAvailable


\* the distinct descriptions, neither null nor empty, of the reference rows of
\* a key, in the order of their first occurrence
DescribedCandidates(project, shire) ==
  LET rows == SelectSeq(pid_arg.rows,
                LAMBDA pid_row :
                  /\ Eq(pid_row["project"], project, NaS)
                  /\ Eq(pid_row["shire"], shire, NaS)
                  /\ ~isna(pid_row["project_description"])
                  /\ pid_row["project_description"] # <<>>)
  IN Unique([k \in 1..Len(rows) |-> rows[k]["project_description"]])

\* C21: the candidates scored for a partition are the distinct, non-null,
\* non-empty descriptions of its reference rows in first-occurrence order, and
\* no accepted row carries a null or empty matched_project_description.
C21_CandidateSet ==
  /\ (pc = "loop" /\ idx <= Len(unique_combinations)) =>
       LET project == unique_combinations[idx][1]
           shire == unique_combinations[idx][2]
       IN PidDescriptions(Subset(pid_df, project, shire))
            = DescribedCandidates(project, shire)
  /\ Merged =>
       \A j \in 1..Len(result.rows) :
         Accepted(result.rows[j]) =>
           /\ ~isna(result.rows[j]["matched_project_description"])
           /\ result.rows[j]["matched_project_description"] # <<>>


\* C23: what preprocess_string returns is lower case and holds only
\* alphanumeric characters and single spaces: no other character and no two
\* whitespace characters in a row, also for a text such as 'a - b'.
C23_Normalized ==
  pre.stage \in {"once", "twice"} =>
    /\ \A i \in 1..Len(pre.once) : pre.once[i] \in {"a", "b", "c", "1", " "}
    /\ \A i \in 1..(Len(pre.once) - 1) :
         ~(IsSpace(pre.once[i]) /\ IsSpace(pre.once[i + 1]))

\* C28: preprocess_string applied to its own result returns that result.
C28_Idempotent ==
  pre.stage = "twice" => pre.twice = pre.once


\* C25: find_best_match returns (None, 0) whenever the target is null, the
\* candidate list is empty, or every candidate is null.
C25_NothingConsidered ==
  \A t \in DOMAIN fbm.results :
    (isna(fbm.target) \/ Scored = {}) =>
      /\ fbm.results[t].best_match = NaT
      /\ fbm.results[t].best_score = 0

\* a null target met a null candidate and a candidate that the empty text
\* scores 100 against, at every threshold
C25_Witness ==
  /\ DOMAIN fbm.results = Thresholds
  /\ isna(fbm.target)
  /\ \E i \in 1..Len(fbm.candidates) : isna(fbm.candidates[i])
  /\ \E i \in Scored :
       partial_ratio(<<>>, preprocess_string(fbm.candidates[i])) = 100


\* C26: when the aggregated input has no match_score column of its own, every
\* match_score of a returned table is 0 or lies in 75..100.
C26_ScoreDomain ==
  (pc = "returned" /\ "match_score" \in result.cols
     /\ "match_score" \notin agg_arg.cols) =>
    \A j \in 1..Len(result.rows) :
      LET score == result.rows[j]["match_score"]
      IN score = 0 \/ (score >= Threshold /\ score <= 100)

\* a returned table holds an accepted row and a row whose best candidate
\* scored above 0 and below the threshold
C26_Witness ==
  /\ Merged
  /\ "match_score" \notin agg_arg.cols
  /\ \E j \in 1..Len(result.rows) : result.rows[j]["match_score"] >= Threshold
  /\ \E j \in 1..Len(result.rows) :
       LET row == result.rows[j]
       IN /\ ~isna(row["segmentdesc"])
          /\ row["match_score"] = 0
          /\ CandidateScores(row) # {}
          /\ SetMax(CandidateScores(row)) > 0
          /\ SetMax(CandidateScores(row)) < Threshold


\* the key of the aggregated row a returned row came from, and the position
\* at which that key first occurs in the aggregated input
KeyOf(j) == <<agg_arg.rows[origin[j]]["project"], agg_arg.rows[origin[j]]["shire"]>>

FirstSeen(key) ==
  SetMin({i \in 1..Len(agg_arg.rows) :
            <<agg_arg.rows[i]["project"], agg_arg.rows[i]["shire"]>> = key})

\* C27: the returned rows are grouped by (project, shire), the groups in the
\* order in which each key first occurs in the aggregated input, the rows of
\* a group in their input order.
C27_StableGrouping ==
  Merged =>
    \A j, k \in 1..Len(result.rows) :
      j < k =>
        IF KeyOf(j) = KeyOf(k)
        THEN origin[j] < origin[k]
        ELSE FirstSeen(KeyOf(j)) < FirstSeen(KeyOf(k))

\* two keys alternate in the aggregated input and the rows came back grouped
C27_Witness ==
  /\ Merged
  /\ Len(agg_arg.rows) = 3
  /\ origin = <<1, 3, 2>>
  /\ KeyOf(1) = KeyOf(2)
  /\ KeyOf(1) # KeyOf(3)


\* C29: over the loop on the M distinct keys the progress values reported are
\* k / M for k = 1..M, in that order (so strictly increasing, each in (0, 1],
\* the last one 1), and the bar is cleared after the loop on every path that
\* entered it.
C29_Progress ==
  LET M == Len(unique_combinations)
      reported == Tail(progress_bar.shown)
  IN progress_bar.shown # <<>> =>
       /\ M >= 1
       /\ progress_bar.shown[1] = <<0, 1>>
       /\ \A k \in 1..Len(reported) : reported[k] = <<k, M>>
       /\ Len(reported) = idx - 1
       /\ Ended => (Len(reported) = M /\ progress_bar.cleared)
       /\ progress_bar.cleared => Ended

\* a call over two keys matched nothing and ended in the KeyError, its bar
\* at 2/2 and cleared
C29_Witness ==
  /\ pc = "raised"
  /\ progress_bar.cleared
  /\ progress_bar.shown = <<<<0, 1>>, <<1, 2>>, <<2, 2>>>>


\* the match results, in order, of the rows of a table that carry a key
MatchResults(df, key) ==
  LET rows == SelectSeq(df.rows,
                LAMBDA row : row["project"] = key[1] /\ row["shire"] = key[2])
  IN [k \in 1..Len(rows) |->
        <<rows[k]["matched_project_description"], rows[k]["match_score"],
          rows[k]["pid_ohl_nr"]>>]

\* C22: the match result of an aggregated row depends only on its segmentdesc
\* and on the reference rows of its key: with the aggregated and reference
\* rows of every other key removed, the call ends as before and the rows of
\* the key have the matched_project_description, match_score and pid_ohl_nr
\* they had.
C22_PartitionIndependence ==
  (first.kind = "others removed" /\ Ended) =>
    /\ pc = first.pc
    /\ pc = "returned" =>
         LET key == <<agg_arg.rows[1]["project"], agg_arg.rows[1]["shire"]>>
         IN MatchResults(result, key) = MatchResults(first.result, key)


\* C24: merge_with_pid_fuzzy is never entered with a table that failed to
\* load: without the aggregated table the script reports the error and stops
\* before the merge step, and without the reference table the step is skipped
\* with a warning and enriched_df is a copy of the aggregated table.
C24_LoadFailuresSurfaced ==
  LET shown(kind, about) ==
        \E i \in 1..Len(script.messages) :
          script.messages[i] = [kind |-> kind, about |-> about]
      said(name) == shown("warning", name) \/ shown("error", name)
  IN /\ script.stage = "merging" =>
          /\ script.files = [aggregated |-> "ok", pid |-> "ok"]
          /\ ~agg_arg.isNone
          /\ ~pid_arg.isNone
     /\ (script.files["aggregated"] # "ok" /\ script.stage # "load") =>
          /\ script.stage \in {"loaded", "halted"}
          /\ said("aggregated")
          /\ script.stage = "halted" => shown("error", "main aggregated data")
          /\ pc = "call"
     /\ (script.files["pid"] # "ok" /\ script.stage \notin {"load", "loaded", "halted"}) =>
          /\ script.stage = "mapping"
          /\ script.enriched_df = agg_arg
          /\ said("pid")
          /\ script.fuzzy_match_enabled =>
               warnings = <<[table |-> "PID", missing |-> <<>>]>>
          /\ pc = "call"

\* the reference file could not be read, the checkbox is ticked, and the
\* script went on with a copy of a loaded aggregated table
C24_Witness ==
  /\ script.stage = "mapping"
  /\ script.files = [aggregated |-> "ok", pid |-> "broken"]
  /\ script.fuzzy_match_enabled
  /\ Len(agg_arg.rows) >= 1
  /\ script.enriched_df = agg_arg
  /\ warnings # <<>>


\* the presses that concern a category, oldest first
PressesOf(cat_name) == SelectSeq(presses, LAMBDA press : press.cat_name = cat_name)

\* C30: after any sequence of presses, every category holds the mapping last
\* pressed for it since its last clear, and nothing if there is none; a press
\* for one category leaves the selection of every other category as it was.
C30_DrillDownSelection ==
  \A cat_name \in Categories :
    LET mine == PressesOf(cat_name)
        key == <<"selected_", cat_name>>
    IN IF mine = <<>> \/ mine[Len(mine)].button = "clear"
       THEN key \notin DOMAIN session_state
       ELSE /\ key \in DOMAIN session_state
            /\ session_state[key] = mine[Len(mine)].mapping_value

\* one category was selected, cleared and left cleared while another one was
\* selected
C30_Witness ==
  /\ Len(presses) = 3
  /\ presses[1].button = "mapping"
  /\ presses[2].button = "mapping"
  /\ presses[2].cat_name # presses[1].cat_name
  /\ presses[3].button = "clear"
  /\ presses[3].cat_name = presses[1].cat_name
  /\ DOMAIN session_state = {<<"selected_", presses[2].cat_name>>}

==============================================================================
